---- MODULE Spec2Model ----
(***************************************************************************)
(* Lead intake of the AC Maintenance Service API (src/main.py).            *)
(*                                                                         *)
(* A request is received by the web framework, which validates the JSON    *)
(* body against LeadRequest before create_lead runs; create_lead dumps the *)
(* validated model, calls create_document("lead", ...) once and shapes the *)
(* response.  The four GET endpoints are modelled as well.                 *)
(*                                                                         *)
(* Text is a sequence of one-character strings, so that the email grammar  *)
(* and the str -> int coercion are computed on characters.                 *)
(***************************************************************************)
EXTENDS Integers, Sequences, FiniteSets, TLC

\* ------------------------------------------------------------------ bounds
MaxRequests == 2

Requests == 1..MaxRequests

\* ------------------------------------------------------- JSON input values
\* A JSON member is absent ("missing"), null, a string, an integer, or a
\* number with a fractional part (n holds the value in tenths).
Missing    == [t |-> "missing", s |-> <<>>, n |-> 0]
Null       == [t |-> "null",    s |-> <<>>, n |-> 0]
JStr(s)    == [t |-> "str",     s |-> s,    n |-> 0]
JInt(n)    == [t |-> "int",     s |-> <<>>, n |-> n]
JFloat(n10) == [t |-> "float",   s |-> <<>>, n |-> n10]

\* a JSON array of strings; items holds the texts
JList(items) == [t |-> "list", s |-> <<>>, n |-> 0, items |-> items]

\* Python None, as a validated field value.
None == Null

\* A validation error of one field.
Err(type) == [t |-> "error", s |-> <<>>, n |-> 0, type |-> type]
IsErr(v)  == v.t = "error"

\* ------------------------------------------------------ field validators
\* name: str  (pydantic: required, any string, strings only)
ValidateStr(v) ==
    CASE v.t = "missing" -> Err("missing")
      [] v.t = "str"     -> v
      [] OTHER           -> Err("string_type")

\* Optional[str] = None
ValidateOptStr(v) ==
    CASE v.t = "missing" -> None
      [] v.t = "null"    -> None
      [] v.t = "str"     -> v
      [] OTHER           -> Err("string_type")

\* Optional[List[str]] = None
ValidateOptStrList(v) ==
    CASE v.t = "missing" -> None
      [] v.t = "null"    -> None
      [] v.t = "list"    -> v
      [] OTHER           -> Err("list_type")

Digits == <<"0", "1", "2", "3", "4", "5", "6", "7", "8", "9">>
IsDigit(c) == \E i \in 1..10 : Digits[i] = c
DigitVal(c) == (CHOOSE i \in 1..10 : Digits[i] = c) - 1

RECURSIVE DigitsVal(_)
DigitsVal(s) ==
    IF s = <<>> THEN 0
    ELSE 10 * DigitsVal(SubSeq(s, 1, Len(s) - 1)) + DigitVal(s[Len(s)])

AllDigits(s) == s /= <<>> /\ \A i \in 1..Len(s) : IsDigit(s[i])

\* int(str): an optional sign followed by decimal digits.
IsIntText(s) ==
    /\ s /= <<>>
    /\ IF s[1] \in {"-", "+"} THEN AllDigits(Tail(s)) ELSE AllDigits(s)
ParseInt(s) ==
    IF s[1] = "-" THEN 0 - DigitsVal(Tail(s))
    ELSE IF s[1] = "+" THEN DigitsVal(Tail(s))
    ELSE DigitsVal(s)

\* units_count: Optional[int] = None  (no lower bound in LeadRequest)
ValidateOptInt(v) ==
    CASE v.t = "missing" -> None
      [] v.t = "null"    -> None
      [] v.t = "int"     -> v
      [] v.t = "str"     -> IF IsIntText(v.s) THEN JInt(ParseInt(v.s))
                            ELSE Err("int_parsing")
      [] v.t = "float"   -> IF v.n % 10 = 0 THEN JInt(v.n \div 10)
                            ELSE Err("int_from_float")
      [] OTHER           -> Err("int_type")

\* ------------------------------------------------------------- EmailStr
Count(s, c) == Cardinality({i \in 1..Len(s) : s[i] = c})
AtPos(s) == CHOOSE i \in 1..Len(s) : s[i] = "@"
LocalPart(s) == SubSeq(s, 1, AtPos(s) - 1)
DomainPart(s) == SubSeq(s, AtPos(s) + 1, Len(s))

\* no empty label: no leading, trailing or doubled dot
DotAtomOk(s) ==
    /\ s /= <<>>
    /\ s[1] /= "."
    /\ s[Len(s)] /= "."
    /\ \A i \in 1..(Len(s) - 1) : ~(s[i] = "." /\ s[i + 1] = ".")

IsEmail(s) ==
    /\ Count(s, "@") = 1
    /\ DotAtomOk(LocalPart(s))
    /\ DotAtomOk(DomainPart(s))
    /\ Count(DomainPart(s), ".") >= 1

Lower(c) ==
    CASE c = "A" -> "a"
      [] c = "B" -> "b"
      [] c = "J" -> "j"
      [] OTHER   -> c

\* the validated value is the normalized address: domain in lower case
NormalizeEmail(s) ==
    [i \in 1..Len(s) |-> IF i > AtPos(s) THEN Lower(s[i]) ELSE s[i]]

\* variant: email declared as a plain str
ValidateEmail_PlainStr(v) ==
    CASE v.t = "missing" -> Err("missing")
      [] v.t = "str"     -> v
      [] OTHER           -> Err("string_type")

\* email: EmailStr
ValidateEmail(v) ==
    CASE v.t = "missing" -> Err("missing")
      [] v.t = "str"     -> IF IsEmail(v.s) THEN JStr(NormalizeEmail(v.s))
                            ELSE Err("value_error")
      [] OTHER           -> Err("string_type")

\* ---------------------------------------------------------- LeadRequest
OptStrFields == {"phone", "company", "location", "capacity_tonnage",
                 "preferred_interval", "message"}
OptListFields == {"unit_types", "pain_points"}
Fields == {"name", "email", "units_count"} \cup OptStrFields \cup OptListFields

\* LeadRequest(**payload): every field validated by its declared type.
LeadRequest(p) ==
    [f \in Fields |->
        CASE f = "name"        -> ValidateStr(p[f])
          [] f = "email"       -> ValidateEmail(p[f])
          [] f = "units_count" -> ValidateOptInt(p[f])
          [] f \in OptListFields -> ValidateOptStrList(p[f])
          [] OTHER             -> ValidateOptStr(p[f])]

\* the (field, error type) pairs of a failed validation
ValidationErrors(p) ==
    {<<f, LeadRequest(p)[f].type>> : f \in {g \in Fields : IsErr(LeadRequest(p)[g])}}

\* lead.model_dump(): the dict of all declared fields
model_dump(lead) == [f \in Fields |-> lead[f]]

\* ------------------------------------------------------------- payloads
\* The bodies submitted: a complete valid body, and that body with one of
\* name, email and units_count replaced by another JSON value.
NameValues  == {Missing, JInt(7), JStr(<<>>), JStr(<<"J">>)}
EmailValues == {Missing, JStr(<<>>), JStr(<<"j", "A", ".", "b">>),
                JStr(<<"j", "@", "b">>), JStr(<<"j", "@", "A", ".", "b">>)}
UnitsValues == {Missing, JInt(0 - 1), JInt(2), JStr(<<"2">>), JStr(<<"x">>),
                JFloat(25)}

BasePayload ==
    [f \in Fields |->
        CASE f = "name"  -> JStr(<<"J">>)
          [] f = "email" -> JStr(<<"j", "@", "A", ".", "b">>)
          [] OTHER       -> Missing]

Payloads ==
    {[BasePayload EXCEPT !["name"] = v] : v \in NameValues}
    \cup {[BasePayload EXCEPT !["email"] = v] : v \in EmailValues}
    \cup {[BasePayload EXCEPT !["units_count"] = v] : v \in UnitsValues}

NoPayload == [f \in Fields |-> Missing]

\* messages of the exceptions the store client raises
StoreErrors == {<<"timeout">>, <<"unreachable">>}

\* --------------------------------------------------------------- state
VARIABLES
    store,      \* the documents of the database, in insertion order
    nextOid,    \* the store's identifier generator
    route,      \* route[r]: the endpoint request r was sent to
    payload,    \* payload[r]: the JSON body of request r
    pc,         \* pc[r]: position of request r
    lead,       \* lead[r]: the validated LeadRequest passed to create_lead
    result,     \* result[r]: outcome of the create_document call of r
    attempts,   \* attempts[r]: number of create_document calls made for r
    resp        \* resp[r]: the HTTP response sent for r

vars == <<store, nextOid, route, payload, pc, lead, result, attempts, resp>>

NoResult   == [kind |-> "none",   id |-> <<>>, msg |-> <<>>]
Returned(id) == [kind |-> "return", id |-> id,   msg |-> <<>>]
Raised(msg)  == [kind |-> "raise",  id |-> <<>>, msg |-> msg]

NoResp == [code |-> 0, keys |-> {}, status |-> "", id |-> <<>>,
           detail |-> <<>>, errors |-> {}, body |-> ""]

\* str(ObjectId): the identifier as text (hexadecimal digits)
RECURSIVE OidStr(_)
OidStr(n) == IF n < 16 THEN <<n>> ELSE Append(OidStr(n \div 16), n % 16)

Init ==
    /\ store = <<>>
    /\ nextOid = 1
    /\ route = [r \in Requests |-> "none"]
    /\ payload = [r \in Requests |-> NoPayload]
    /\ pc = [r \in Requests |-> "idle"]
    /\ lead = [r \in Requests |-> NoPayload]
    /\ result = [r \in Requests |-> NoResult]
    /\ attempts = [r \in Requests |-> 0]
    /\ resp = [r \in Requests |-> NoResp]

\* requests are numbered in arrival order
CanArrive(r) == pc[r] = "idle" /\ (IF r = 1 THEN TRUE ELSE pc[r - 1] /= "idle")

\* ------------------------------------------------------------ responses
\* return {"status": "success", "id": lead_id}
SuccessResponse(id) ==
    [NoResp EXCEPT !.code = 200, !.keys = {"status", "id"},
                   !.status = "success", !.id = id]

\* variant: the failure reported as a client error
ErrorResponse_400(msg) ==
    [NoResp EXCEPT !.code = 400, !.keys = {"detail"}, !.detail = msg]

\* raise HTTPException(status_code=500, detail=str(e))
ErrorResponse(msg) ==
    [NoResp EXCEPT !.code = 500, !.keys = {"detail"}, !.detail = msg]

\* the framework's answer to a body that fails LeadRequest validation
ValidationResponse(errs) ==
    [NoResp EXCEPT !.code = 422, !.keys = {"detail"}, !.errors = errs]

\* the fixed content of the GET endpoints
StaticResponse(body) ==
    [NoResp EXCEPT !.code = 200, !.keys = {body}, !.body = body]

\* ---------------------------------------------------- POST /api/leads
\* The body is validated against LeadRequest; create_lead is entered only
\* with a valid model, otherwise the request is answered with 422.
PostLead(r, p) ==
    /\ CanArrive(r)
    /\ route' = [route EXCEPT ![r] = "POST /api/leads"]
    /\ payload' = [payload EXCEPT ![r] = p]
    /\ IF ValidationErrors(p) /= {}
         THEN /\ resp' = [resp EXCEPT ![r] = ValidationResponse(ValidationErrors(p))]
              /\ pc' = [pc EXCEPT ![r] = "done"]
              /\ UNCHANGED lead
         ELSE /\ lead' = [lead EXCEPT ![r] = LeadRequest(p)]
              /\ pc' = [pc EXCEPT ![r] = "create_lead"]
              /\ UNCHANGED resp
    /\ UNCHANGED <<store, nextOid, result, attempts>>

\* create_document(collection_name, data) returns: one document appended
\* to the collection, the text of its new identifier returned.
create_document(r, collection_name, data) ==
    /\ store' = Append(store, [collection |-> collection_name,
                               oid |-> nextOid, doc |-> data])
    /\ nextOid' = nextOid + 1
    /\ result' = [result EXCEPT ![r] = Returned(OidStr(nextOid))]

\* create_document raises: nothing is written.
create_document_raises(r, msg) ==
    /\ result' = [result EXCEPT ![r] = Raised(msg)]
    /\ UNCHANGED <<store, nextOid>>

\* variant: an equal document already stored is reused (deduplication)
CallCreateDocument_Dedup(r) ==
    /\ pc[r] = "create_lead"
    /\ IF \E i \in 1..Len(store) : store[i].doc = model_dump(lead[r])
         THEN /\ result' = [result EXCEPT ![r] = Returned(OidStr(
                    store[CHOOSE i \in 1..Len(store) :
                              store[i].doc = model_dump(lead[r])].oid))]
              /\ UNCHANGED <<store, nextOid>>
         ELSE create_document(r, "lead", model_dump(lead[r]))
    /\ attempts' = [attempts EXCEPT ![r] = @ + 1]
    /\ pc' = [pc EXCEPT ![r] = "returned"]
    /\ UNCHANGED <<route, payload, lead, resp>>

\* variant: the lead is kept in a module-level variable that the latest
\* arrival overwrites
CallCreateDocument_SharedLead(r) ==
    /\ pc[r] = "create_lead"
    /\ create_document(r, "lead", model_dump(lead[
            CHOOSE q \in Requests :
                /\ route[q] = "POST /api/leads" /\ pc[q] /= "idle"
                /\ ValidationErrors(payload[q]) = {}
                /\ \A q2 \in Requests :
                      (route[q2] = "POST /api/leads" /\ pc[q2] /= "idle"
                       /\ ValidationErrors(payload[q2]) = {}) => q2 <= q]))
    /\ attempts' = [attempts EXCEPT ![r] = @ + 1]
    /\ pc' = [pc EXCEPT ![r] = "returned"]
    /\ UNCHANGED <<route, payload, lead, resp>>

\* lead_id = create_document("lead", lead.model_dump())
CallCreateDocument(r) ==
    /\ pc[r] = "create_lead"
    /\ create_document(r, "lead", model_dump(lead[r]))
    /\ attempts' = [attempts EXCEPT ![r] = @ + 1]
    /\ pc' = [pc EXCEPT ![r] = "returned"]
    /\ UNCHANGED <<route, payload, lead, resp>>

CallCreateDocumentRaises(r, msg) ==
    /\ pc[r] = "create_lead"
    /\ create_document_raises(r, msg)
    /\ attempts' = [attempts EXCEPT ![r] = @ + 1]
    /\ pc' = [pc EXCEPT ![r] = "returned"]
    /\ UNCHANGED <<route, payload, lead, resp>>

\* variant: the exception is swallowed and success is reported
create_lead_response_Swallow(res) == SuccessResponse(res.id)

\* the response of create_lead for the outcome of its try block
create_lead_response(res) ==
    IF res.kind = "return" THEN SuccessResponse(res.id)
    ELSE ErrorResponse(res.msg)

\* variant: a failed insert is tried once more before answering
Respond_Retry(r) ==
    /\ pc[r] = "returned"
    /\ IF result[r].kind = "raise" /\ attempts[r] < 2
         THEN /\ pc' = [pc EXCEPT ![r] = "create_lead"]
              /\ UNCHANGED resp
         ELSE /\ resp' = [resp EXCEPT ![r] = create_lead_response(result[r])]
              /\ pc' = [pc EXCEPT ![r] = "done"]
    /\ UNCHANGED <<store, nextOid, route, payload, lead, result, attempts>>

\* return / raise of create_lead: the response is sent
Respond(r) ==
    /\ pc[r] = "returned"
    /\ resp' = [resp EXCEPT ![r] = create_lead_response(result[r])]
    /\ pc' = [pc EXCEPT ![r] = "done"]
    /\ UNCHANGED <<store, nextOid, route, payload, lead, result, attempts>>

\* ------------------------------------------------------- GET endpoints
Answer(r, path, response) ==
    /\ CanArrive(r)
    /\ route' = [route EXCEPT ![r] = path]
    /\ resp' = [resp EXCEPT ![r] = response]
    /\ pc' = [pc EXCEPT ![r] = "done"]
    /\ UNCHANGED <<store, nextOid, payload, lead, result, attempts>>

read_root(r) == Answer(r, "GET /", StaticResponse("message"))

get_pain_points(r) == Answer(r, "GET /api/pain-points", StaticResponse("pain_points"))

maintenance_tasks(r) == Answer(r, "GET /api/maintenance-tasks", StaticResponse("tasks"))

\* collections = db.list_collection_names(): a collection exists once it
\* holds a document
Collections == {store[i].collection : i \in 1..Len(store)}

TestResponse(db) ==
    [NoResp EXCEPT !.code = 200,
                   !.keys = {"backend", "database", "collections"},
                   !.body = db,
                   !.errors = IF db = "working" THEN Collections ELSE {}]

\* variant: the diagnostic writes a probe document to check the connection
test_database_Probe(r, db) ==
    /\ CanArrive(r)
    /\ route' = [route EXCEPT ![r] = "GET /test"]
    /\ resp' = [resp EXCEPT ![r] = TestResponse(db)]
    /\ pc' = [pc EXCEPT ![r] = "done"]
    /\ store' = IF db = "working"
                THEN Append(store, [collection |-> "test", oid |-> nextOid,
                                    doc |-> model_dump(NoPayload)])
                ELSE store
    /\ nextOid' = IF db = "working" THEN nextOid + 1 ELSE nextOid
    /\ UNCHANGED <<payload, lead, result, attempts>>

\* GET /test: db is None, or list_collection_names() answers
test_database(r, db) ==
    Answer(r, "GET /test", TestResponse(db))

DbStates == {"not initialized", "working"}

Next ==
    \/ \E r \in Requests, p \in Payloads : PostLead(r, p)
    \/ \E r \in Requests : CallCreateDocument(r)
    \/ \E r \in Requests, m \in StoreErrors : CallCreateDocumentRaises(r, m)
    \/ \E r \in Requests : Respond(r)
    \/ \E r \in Requests : read_root(r)
    \/ \E r \in Requests : get_pain_points(r)
    \/ \E r \in Requests : maintenance_tasks(r)
    \/ \E r \in Requests, db \in DbStates : test_database(r, db)

Spec == Init /\ [][Next]_vars

\* The handler runs to completion: the worker thread executing create_lead
\* is never suspended forever and the store call returns or raises.
Handler(r) ==
    \/ CallCreateDocument(r)
    \/ \E m \in StoreErrors : CallCreateDocumentRaises(r, m)
    \/ Respond(r)

FairSpec == Spec /\ \A r \in Requests : WF_vars(Handler(r))

TypeOK == pc \in [Requests -> {"idle", "create_lead", "returned", "done"}]

\* ------------------------------------------------------------ properties
IsPost(r) == route[r] = "POST /api/leads"

GetRoutes == {"GET /", "GET /api/pain-points", "GET /api/maintenance-tasks",
              "GET /test"}

\* the request state machine of the lead flow
State(r) ==
    CASE pc[r] = "idle" -> "None"
      [] pc[r] = "done" -> IF resp[r].code = 200 THEN "Accepted" ELSE "Rejected"
      [] OTHER          -> "Received"

IsSuccess(rs) ==
    rs.code = 200 /\ rs.keys = {"status", "id"} /\ rs.status = "success"

\* the stored records that carry a given identifier text
RecordsWithId(id) ==
    {i \in 1..Len(store) : store[i].collection = "lead" /\ OidStr(store[i].oid) = id}

\* the document a request's body stands for once validated
ExpectedDoc(r) == [f \in Fields |-> LeadRequest(payload[r])[f]]

Inserted == {r \in Requests : result[r].kind = "return"}

\* C1: a POST /api/leads body without name, without email or with an email
\* that is not a syntactically valid address is answered with a client error,
\* create_document is never called for it, and it adds nothing to the store.
BadRequiredField(p) ==
    \/ p["name"].t = "missing"
    \/ p["email"].t = "missing"
    \/ (p["email"].t = "str" /\ ~IsEmail(p["email"].s))

C1_InvalidNeverReachesRepository ==
    /\ \A r \in Requests :
         (IsPost(r) /\ BadRequiredField(payload[r])) =>
            /\ pc[r] = "done"
            /\ resp[r].code \in 400..499
            /\ attempts[r] = 0
            /\ result[r] = NoResult
    /\ Len(store) <= Cardinality({r \in Requests : attempts[r] > 0})

C1_Witness ==
    \E r, q \in Requests :
        /\ IsPost(r) /\ payload[r]["email"] = JStr(<<"j", "A", ".", "b">>)
        /\ payload[r]["name"] = JStr(<<"J">>)
        /\ pc[r] = "done"
        /\ IsPost(q) /\ pc[q] = "done" /\ payload[q]["name"] = Missing

\* C2: every record stored in the "lead" collection has a non-empty name and
\* a non-empty email (a body with name "" is rejected before any insert).
C2_NameAndEmailNonEmpty ==
    \A i \in 1..Len(store) :
        store[i].collection = "lead" =>
            /\ store[i].doc["name"].t = "str" /\ store[i].doc["name"].s /= <<>>
            /\ store[i].doc["email"].t = "str" /\ store[i].doc["email"].s /= <<>>

\* C3: every stored lead has units_count not provided or an integer >= 0, and
\* a body whose units_count is negative or not an integer is never persisted.
\* (text that spells an integer counts as that integer)
NotANonNegativeInteger(v) ==
    \/ (v.t = "int" /\ v.n < 0)
    \/ (v.t = "float" /\ v.n % 10 /= 0)
    \/ (v.t = "str" /\ ~IsIntText(v.s))

C3_UnitsCountNonNegative ==
    /\ \A i \in 1..Len(store) :
         store[i].collection = "lead" =>
            \/ store[i].doc["units_count"] = None
            \/ (store[i].doc["units_count"].t = "int" /\ store[i].doc["units_count"].n >= 0)
    /\ \A r \in Requests :
         (IsPost(r) /\ NotANonNegativeInteger(payload[r]["units_count"])) =>
            attempts[r] = 0

\* C4: a finished lead submission answers {status: "success", id} exactly when
\* its insert returned, and then exactly one stored record carries that id and
\* equals the validated lead field for field (absent optional fields stored
\* as None); a submission answered with a failure has added no record, the
\* store holding one record per returned insert and no other.
C4_AllOrNothing ==
    /\ Len(store) = Cardinality(Inserted)
    /\ \A r \in Requests :
         (IsPost(r) /\ pc[r] = "done") =>
            /\ IsSuccess(resp[r]) <=> r \in Inserted
            /\ IsSuccess(resp[r]) =>
                 /\ resp[r].id = result[r].id
                 /\ Cardinality(RecordsWithId(resp[r].id)) = 1
                 /\ \A i \in RecordsWithId(resp[r].id) :
                      /\ store[i].doc = ExpectedDoc(r)
                      /\ DOMAIN store[i].doc = Fields
                      /\ \A f \in Fields :
                           payload[r][f] = Missing => store[i].doc[f] = None
            /\ ~IsSuccess(resp[r]) =>
                 /\ resp[r].code \in {422, 500}
                 /\ "id" \notin resp[r].keys
                 /\ RecordsWithId(resp[r].id) = {}

C4_Witness ==
    \E r, q \in Requests :
        /\ IsPost(r) /\ pc[r] = "done" /\ IsSuccess(resp[r])
        /\ payload[r]["units_count"] = Missing
        /\ IsPost(q) /\ pc[q] = "done" /\ resp[q].code = 500
        /\ Len(store) = 1

\* C5: a valid submission whose insert raised is answered with HTTP 500 whose
\* body is a detail string and has no id; it is never answered with success.
C5_InsertFailureIs500 ==
    \A r \in Requests :
        (IsPost(r) /\ result[r].kind = "raise") =>
            /\ ValidationErrors(payload[r]) = {}
            /\ ~IsSuccess(resp[r])
            /\ pc[r] = "done" =>
                 /\ resp[r].code = 500
                 /\ resp[r].keys = {"detail"}
                 /\ resp[r].id = <<>>

C5_Witness ==
    \E r \in Requests :
        /\ IsPost(r) /\ result[r].kind = "raise" /\ pc[r] = "done"
        /\ resp[r].code = 500

\* C6: two submissions with the same valid body whose inserts failed get the
\* same client-visible response, whatever the store's internal error was.
C6_FailureResponseGeneric ==
    \A r, q \in Requests :
        (/\ IsPost(r) /\ IsPost(q)
         /\ pc[r] = "done" /\ pc[q] = "done"
         /\ payload[r] = payload[q]
         /\ result[r].kind = "raise" /\ result[q].kind = "raise") =>
            resp[r] = resp[q]

\* C7: identifiers returned by successful inserts are non-empty and pairwise
\* distinct, also for equal bodies, each names its own stored record, and the
\* store holds exactly as many lead records as inserts have succeeded.
C7_DistinctIdentifiers ==
    /\ \A r \in Inserted : result[r].id /= <<>>
    /\ \A r, q \in Inserted : r /= q => result[r].id /= result[q].id
    /\ \A r, q \in Inserted :
         r /= q => RecordsWithId(result[r].id) \cap RecordsWithId(result[q].id) = {}
    /\ \A r \in Inserted : RecordsWithId(result[r].id) /= {}
    /\ Cardinality({i \in 1..Len(store) : store[i].collection = "lead"})
          = Cardinality(Inserted)
    /\ \A r \in Requests :
         (pc[r] = "done" /\ IsSuccess(resp[r])) => resp[r].id = result[r].id

C7_Witness ==
    \E r, q \in Requests :
        /\ r /= q
        /\ IsPost(r) /\ IsPost(q) /\ payload[r] = payload[q]
        /\ pc[r] = "done" /\ pc[q] = "done"
        /\ IsSuccess(resp[r]) /\ IsSuccess(resp[q])
        /\ Len(store) = 2

\* C8: a received lead request eventually becomes Accepted or Rejected;
\* Accepted only after its insert returned, Rejected after a validation
\* failure or a raised insert; a terminal request never changes again; and
\* create_document is called at most once per request.
Terminal(r) == State(r) \in {"Accepted", "Rejected"}

C8_StateMachine ==
    /\ \A r \in Requests : (IsPost(r) /\ State(r) = "Received") ~> Terminal(r)
    /\ [][\A r \in Requests :
            /\ Terminal(r) =>
                 /\ pc'[r] = pc[r] /\ resp'[r] = resp[r]
                 /\ attempts'[r] = attempts[r] /\ result'[r] = result[r]
            /\ State(r) = "Received" => pc'[r] /= "idle"
            /\ attempts'[r] \in {attempts[r], attempts[r] + 1}]_vars
    /\ [](\A r \in Requests :
            /\ attempts[r] <= 1
            /\ IsPost(r) =>
                 /\ State(r) = "Accepted" => result[r].kind = "return"
                 /\ State(r) = "Rejected" =>
                      \/ (ValidationErrors(payload[r]) /= {} /\ attempts[r] = 0)
                      \/ (result[r].kind = "raise" /\ attempts[r] = 1))

C8_Witness ==
    \E r, q \in Requests :
        /\ IsPost(r) /\ State(r) = "Accepted" /\ attempts[r] = 1
        /\ IsPost(q) /\ State(q) = "Rejected" /\ attempts[q] = 1

\* C9: whatever the interleaving of concurrent submissions, every request
\* whose insert returned has exactly one stored record, which carries that
\* request's own validated body and the id handed to it; records of different
\* requests are different records; and the store holds nothing else, so its
\* contents are fixed by the bodies and the insert results, not by the order.
C9_IndependentSubmissions ==
    /\ \A r \in Inserted :
         /\ Cardinality(RecordsWithId(result[r].id)) = 1
         /\ \A i \in RecordsWithId(result[r].id) : store[i].doc = ExpectedDoc(r)
    /\ \A i \in 1..Len(store) :
         Cardinality({r \in Inserted : i \in RecordsWithId(result[r].id)}) = 1
    /\ \A r \in Requests :
         State(r) = "Accepted" /\ IsPost(r) =>
            r \in Inserted /\ resp[r].id = result[r].id

\* two submissions with different bodies in flight at once, the one that
\* arrived later inserted first
C9_Witness ==
    /\ MaxRequests >= 2
    /\ IsPost(1) /\ IsPost(2)
    /\ payload[1] /= payload[2]
    /\ State(1) = "Accepted" /\ State(2) = "Accepted"
    /\ Len(store) = 2
    /\ store[1].doc = ExpectedDoc(2)
    /\ store[2].doc = ExpectedDoc(1)

\* C10: the store is append-only: a step never changes or removes a stored
\* record, the only step that adds one is the returning insert of a
\* POST /api/leads, and answering a GET endpoint leaves the store unchanged.
C10_AppendOnly ==
    [][/\ Len(store') >= Len(store)
       /\ \A i \in 1..Len(store) : store'[i] = store[i]
       /\ store' /= store =>
            /\ Len(store') = Len(store) + 1
            /\ \E r \in Requests :
                 /\ IsPost(r) /\ pc[r] = "create_lead" /\ pc'[r] = "returned"
                 /\ result'[r].kind = "return"
       /\ \A r \in Requests :
            (route[r] = "none" /\ route'[r] \in GetRoutes) => store' = store]_vars

C10_Witness ==
    \E r \in Requests :
        /\ route[r] = "GET /test" /\ resp[r].errors = {"lead"}
        /\ Len(store) = 1

====
